---- MODULE Spec2Model ----
(***************************************************************************)
(* A model of the numerical core of inlet-designer: the two root finders   *)
(* (utils/numerics.rs), the compressible-flow relations                    *)
(* (utils/isentropic.rs, utils/obliqueshock.rs) and the Taylor-Maccoll     *)
(* Runge-Kutta integrator (taylormaccoll.rs).                              *)
(*                                                                         *)
(* Numbers.  An f64 is modelled as an integer count of thousandths         *)
(* (Scale = 1000, so 1.4 is 1400), with the three non-finite values of     *)
(* IEEE arithmetic: PInf, NInf and NaN.  A finite result is rounded to the *)
(* nearest thousandth (ties to even) and one beyond MaxFin overflows to an *)
(* infinity, as an f64 result beyond f64::MAX does.  There is no negative  *)
(* zero: x / 0 takes the sign of x.  The literals 1e-9 and 1e-12, which    *)
(* lie below one thousandth, are kept exact: a tolerance is a count of     *)
(* 1e-9 and the derivative guard a count of 1e-12, and a comparison of a   *)
(* number with one of them is the exact comparison of the two rationals.   *)
(***************************************************************************)
EXTENDS Integers, Sequences, FiniteSets, TLC

VARIABLES
    \* solve_taylor_maccoll
    tm_pc,                        \* "off", "call", "loop" or "done"
    tm_args,                      \* the arguments of the call
    h,                            \* the step size
    results,                      \* the Vec<TaylorMaccollResult>
    current_radial_velocity,
    current_tangential_velocity,
    current_radial_distance,
    current_theta,
    tm_step,                      \* iterations of the for loop begun
    tm_ret,                       \* "none", "Ok" or "Err"
    cross_log,                    \* history: cross_stream_mach of every candidate
    stage_log,                    \* history: tangential component of every stage
    \* bisection
    bis_pc,                       \* "off", "call", "loop" or "done"
    bis_args,                     \* the arguments of the call
    bis_tolerance,                \* tolerance after unwrap_or
    bis_max_iters,                \* max_iters after unwrap_or
    lowerbound,
    upperbound,
    bis_i,                        \* iterations of the for loop begun
    bis_ret,                      \* "none", "Ok" or "Panic"
    bis_val,                      \* the value returned
    \* newton_raphson
    nr_pc,                        \* "off", "call", "loop" or "done"
    nr_args,                      \* the arguments of the call
    nr_tolerance,                 \* tolerance after unwrap_or
    nr_max_iters,                 \* max_iters after unwrap_or
    x_current,
    f_current,
    df_curr,
    nr_i,                         \* iterations of the for loop begun
    nr_ret,                       \* "none", "Ok" or "Panic"
    nr_val,                       \* the value returned
    nr_msg,                       \* the message of the panic
    nr_divisors,                  \* history: every df_curr that f_current was divided by
    \* a call of one flow relation
    flow_call,                    \* the function called and its arguments
    flow_res                      \* its result

tmVars == <<tm_pc, tm_args, h, results, current_radial_velocity,
            current_tangential_velocity, current_radial_distance, current_theta,
            tm_step, tm_ret, cross_log, stage_log>>

bisVars == <<bis_pc, bis_args, bis_tolerance, bis_max_iters, lowerbound, upperbound,
             bis_i, bis_ret, bis_val>>

nrVars == <<nr_pc, nr_args, nr_tolerance, nr_max_iters, x_current, f_current, df_curr,
            nr_i, nr_ret, nr_val, nr_msg, nr_divisors>>

flowVars == <<flow_call, flow_res>>

vars == <<tmVars, bisVars, nrVars, flowVars>>

\* ------------------------------------------------------------- numbers

Scale == 10^3
MaxFin == 2 * 10^6
\* the largest product of two counts that is formed before rounding
MulLimit == MaxFin * Scale
PInf == MaxFin + 1
NInf == -PInf
NaN == MaxFin + 2

IsNaN(a) == a = NaN
IsInf(a) == a = PInf \/ a = NInf
IsFinite(a) == ~IsNaN(a) /\ ~IsInf(a)

IAbs(n) == IF n < 0 THEN -n ELSE n
Sgn(n) == IF n > 0 THEN 1 ELSE IF n < 0 THEN -1 ELSE 0

\* the quotient q with remainder r of a division by d > 0, rounded to the
\* nearest integer, ties to even
RoundTies(q, r, d) ==
    IF 2 * r < d THEN q
    ELSE IF 2 * r > d THEN q + 1
    ELSE IF q % 2 = 0 THEN q ELSE q + 1

\* n / d rounded to the nearest integer, ties to even (d > 0)
RoundDivPos(n, d) == RoundTies(n \div d, n % d, d)

\* n / d rounded to the nearest integer, ties to even (d # 0)
RoundDiv(n, d) == IF d > 0 THEN RoundDivPos(n, d) ELSE RoundDivPos(-n, -d)

\* a finite result, overflowing to an infinity beyond MaxFin
Clamp(n) == IF n > MaxFin THEN PInf ELSE IF n < -MaxFin THEN NInf ELSE n

SignedInf(s) == IF s > 0 THEN PInf ELSE NInf

\* an integer literal of the source, e.g. 2.0 is F(2)
F(n) == n * Scale

\* -a
FNeg(a) == IF IsNaN(a) THEN NaN ELSE -a

\* a.abs()
FAbs(a) == IF IsNaN(a) THEN NaN ELSE IAbs(a)

\* a + b
FAdd(a, b) ==
    IF IsNaN(a) \/ IsNaN(b) THEN NaN
    ELSE IF IsInf(a) /\ IsInf(b) THEN (IF a = b THEN a ELSE NaN)
    ELSE IF IsInf(a) THEN a
    ELSE IF IsInf(b) THEN b
    ELSE Clamp(a + b)

\* a - b
FSub(a, b) == FAdd(a, FNeg(b))

\* The rounded product p of two non-zero finite numbers whose signs multiply
\* to s.  It is never zero (an f64 product underflows only below 5e-324): a
\* product that rounds to no thousandth is one thousandth of its sign.
NonZeroProduct(p, s) == IF p = 0 THEN s ELSE Clamp(p)

\* a * b
FMul(a, b) ==
    IF IsNaN(a) \/ IsNaN(b) THEN NaN
    ELSE IF a = 0 \/ b = 0 THEN (IF IsInf(a) \/ IsInf(b) THEN NaN ELSE 0)
    ELSE IF IsInf(a) \/ IsInf(b) THEN SignedInf(Sgn(a) * Sgn(b))
    ELSE IF IAbs(a) > MulLimit \div IAbs(b) THEN SignedInf(Sgn(a) * Sgn(b))
    ELSE NonZeroProduct(RoundDiv(a * b, Scale), Sgn(a) * Sgn(b))

\* a / b
FDiv(a, b) ==
    IF IsNaN(a) \/ IsNaN(b) THEN NaN
    ELSE IF IsInf(a) THEN (IF IsInf(b) THEN NaN
                           ELSE SignedInf(Sgn(a) * (IF b < 0 THEN -1 ELSE 1)))
    ELSE IF IsInf(b) THEN 0
    ELSE IF b = 0 THEN (IF a = 0 THEN NaN ELSE SignedInf(Sgn(a)))
    ELSE Clamp(RoundDiv(a * Scale, b))

\* the comparisons of f64: every comparison with a NaN is false
FLt(a, b) == ~IsNaN(a) /\ ~IsNaN(b) /\ a < b
FLe(a, b) == ~IsNaN(a) /\ ~IsNaN(b) /\ a <= b
FGt(a, b) == FLt(b, a)
FGe(a, b) == FLe(b, a)

\* a.powi(2)
FSq(a) == FMul(a, a)

\* ------------------------------------------------- elementary functions
\* Evaluated in ten-thousandths (Fine) on the reduced argument and rounded
\* to a thousandth.

Fine == 10^4
FinePerScale == Fine \div Scale
PiFine == 31416
HalfPiFine == PiFine \div 2
TwoPiFine == 2 * PiFine

\* std::f64::consts::PI
PI == RoundDiv(PiFine, FinePerScale)

FineMul(a, b) == RoundDiv(a * b, Fine)

\* r (1 - r2/6 (1 - r2/20 (1 - r2/42 (1 - r2/72)))) with r2 the square of r
SinHorner(r, r2) ==
    FineMul(r, Fine - RoundDiv(FineMul(r2,
               Fine - RoundDiv(FineMul(r2,
               Fine - RoundDiv(FineMul(r2,
               Fine - RoundDiv(r2, 72)), 42)), 20)), 6))

\* sin r for 0 <= r <= pi/2, r and the result in ten-thousandths
SinPoly(r) == SinHorner(r, FineMul(r, r))

\* sin of an angle of the first half turn
SinFold(half) == SinPoly(IF half > HalfPiFine THEN PiFine - half ELSE half)

\* sin of an angle of the first turn
SinTurn(r) == IF r >= PiFine THEN -SinFold(r - PiFine) ELSE SinFold(r)

\* sin of an angle given in ten-thousandths, result in ten-thousandths
SinFine(x) == SinTurn(x % TwoPiFine)

CosFine(x) == SinFine(x + HalfPiFine)

\* a.sin()
Sin(a) == IF ~IsFinite(a) THEN NaN ELSE RoundDiv(SinFine(a * FinePerScale), FinePerScale)

\* a.cos()
Cos(a) == IF ~IsFinite(a) THEN NaN ELSE RoundDiv(CosFine(a * FinePerScale), FinePerScale)

\* the quotient of a sine s and a cosine c, both in ten-thousandths
TanOf(s, c) == IF c = 0 THEN SignedInf(s) ELSE Clamp(RoundDiv(s * Scale, c))

\* a.tan()
Tan(a) ==
    IF ~IsFinite(a) THEN NaN
    ELSE TanOf(SinFine(a * FinePerScale), CosFine(a * FinePerScale))

\* y (1 - 0.3326 y2 + 0.1935 y2^2 - 0.1164 y2^3 + 0.0527 y2^4 - 0.0117 y2^5)
\* with y2 the square of y
AtanHorner(y, y2) ==
    FineMul(y, 10000 + FineMul(y2,
               -3326 + FineMul(y2,
               1935 + FineMul(y2,
               -1164 + FineMul(y2,
               527 + FineMul(-117, y2))))))

\* atan y for 0 <= y <= 1, y and the result in ten-thousandths
AtanPoly(y) == AtanHorner(y, FineMul(y, y))

\* atan m for m >= 0 in thousandths, result in ten-thousandths
AtanMag(m) ==
    IF m <= Scale THEN AtanPoly(m * FinePerScale)
    ELSE HalfPiFine - AtanPoly(RoundDiv(Fine * Scale, m))

\* a.atan()
Atan(a) ==
    IF IsNaN(a) THEN NaN
    ELSE IF a = PInf THEN RoundDiv(HalfPiFine, FinePerScale)
    ELSE IF a = NInf THEN -RoundDiv(HalfPiFine, FinePerScale)
    ELSE Sgn(a) * RoundDiv(AtanMag(IAbs(a)), FinePerScale)

\* the integer square root of n > 0 by Newton's iteration from x, with y the
\* next iterate
RECURSIVE ISqrtNext(_, _, _)
ISqrtNext(n, x, y) == IF y >= x THEN x ELSE ISqrtNext(n, y, (y + n \div y) \div 2)

ISqrt(n) == IF n = 0 THEN 0 ELSE ISqrtNext(n, n, (n + 1) \div 2)

\* the integer nearest to the square root of n, r being its integer part
NearestRoot(n, r) == IF n - r * r > r THEN r + 1 ELSE r

\* a.sqrt()
FSqrt(a) ==
    IF IsNaN(a) \/ a < 0 THEN NaN
    ELSE IF a = PInf THEN PInf
    ELSE NearestRoot(a * Scale, ISqrt(a * Scale))

\* 2^k for k >= 0
RECURSIVE Pow2(_)
Pow2(k) == IF k = 0 THEN 1 ELSE 2 * Pow2(k - 1)

\* 2 (z + z^3/3 + z^5/5 + z^7/7) with z2 the square of z
LnHorner(z, z2) ==
    2 * FineMul(z, Fine + FineMul(z2,
                   RoundDiv(Fine, 3) + FineMul(z2,
                   RoundDiv(Fine, 5) + FineMul(z2, RoundDiv(Fine, 7)))))

\* ln m for 0.75 <= m < 1.5 from z = (m - 1) / (m + 1)
LnOfRatio(z) == LnHorner(z, FineMul(z, z))

LnNear1(m) == LnOfRatio(RoundDiv((m - Fine) * Fine, m + Fine))

\* ln x for x > 0, x and the result in ten-thousandths: halve or double x
\* into [0.75, 1.5), k counting the halvings
RECURSIVE LnReduce(_, _)
LnReduce(x, k) ==
    IF x >= 15000 THEN LnReduce(RoundDiv(x, 2), k + 1)
    ELSE IF x < 7500 THEN LnReduce(2 * x, k - 1)
    ELSE k * 6931 + LnNear1(x)

LnFine(x) == LnReduce(x, 0)

\* 1 + r + r^2/2 + r^3/6 + r^4/24 + r^5/120
ExpHorner(r) ==
    Fine + FineMul(r, Fine + RoundDiv(FineMul(r,
           Fine + RoundDiv(FineMul(r,
           Fine + RoundDiv(FineMul(r,
           Fine + RoundDiv(r, 5)), 4)), 3)), 2))

\* e^r 2^k in thousandths from e^r in ten-thousandths; never zero, as an
\* f64 power of a finite number underflows only below 5e-324
ExpScale(e, k) ==
    IF k > 11 THEN PInf
    ELSE IF k >= 0 THEN Clamp(RoundDiv(e * Pow2(k), FinePerScale))
    ELSE IF k < -14 THEN 1
    ELSE NonZeroProduct(RoundDiv(e, FinePerScale * Pow2(-k)), 1)

\* e^t in thousandths with t = k ln 2 + r
ExpSplit(t, k) == ExpScale(ExpHorner(t - k * 6931), k)

\* e^t in thousandths, t in ten-thousandths
ExpFine(t) == ExpSplit(t, RoundDiv(t, 6931))

\* e^(y l) in thousandths, y in thousandths and l in ten-thousandths
ExpOfProduct(y, l) ==
    IF l = 0 THEN Scale
    ELSE IF IAbs(y) > MulLimit \div IAbs(l) THEN (IF Sgn(y) = Sgn(l) THEN PInf ELSE 1)
    ELSE ExpFine(RoundDiv(y * l, Scale))

\* x^y for finite x > 0 and finite y, x and y in thousandths
PowPos(x, y) ==
    IF y = 0 \/ x = Scale THEN Scale
    ELSE ExpOfProduct(y, LnFine(x * FinePerScale))

\* whether the finite y is an integer, and whether an odd one
IsWhole(y) == y % Scale = 0
IsOddWhole(y) == IsWhole(y) /\ (y \div Scale) % 2 = 1

\* a.powf(y)
Powf(a, y) ==
    IF y = 0 \/ a = Scale THEN Scale
    ELSE IF IsNaN(a) \/ IsNaN(y) THEN NaN
    ELSE IF IsInf(y)
         THEN IF IAbs(a) = Scale THEN Scale
              ELSE IF (IAbs(a) > Scale) = (y = PInf) THEN PInf ELSE 0
    ELSE IF a = 0 THEN (IF y > 0 THEN 0 ELSE PInf)
    ELSE IF a = PInf THEN (IF y > 0 THEN PInf ELSE 0)
    ELSE IF a = NInf
         THEN IF y > 0 THEN (IF IsOddWhole(y) THEN NInf ELSE PInf) ELSE 0
    ELSE IF a > 0 THEN PowPos(a, y)
    ELSE IF ~IsWhole(y) THEN NaN
    ELSE IF IsOddWhole(y) THEN FNeg(PowPos(-a, y))
    ELSE PowPos(-a, y)

\* a.asin()
Asin(a) ==
    IF IsNaN(a) \/ FAbs(a) > Scale THEN NaN
    ELSE IF a = Scale THEN RoundDiv(HalfPiFine, FinePerScale)
    ELSE IF a = -Scale THEN -RoundDiv(HalfPiFine, FinePerScale)
    ELSE Atan(FDiv(a, FSqrt(FSub(F(1), FSq(a)))))

\* --------------------------------------------------- results and options

\* Result<f64, &'static str>.  calls lists the calls of a root finder made
\* on the way to the result; a panic of the root finder leaves no result.
Ok(v) == [tag |-> "Ok", val |-> v, msg |-> "", calls |-> <<>>]
Err(msg) == [tag |-> "Err", val |-> 0, msg |-> msg, calls |-> <<>>]

\* Option<T>
None == [some |-> FALSE, val |-> 0]
Some(v) == [some |-> TRUE, val |-> v]
unwrap_or(o, default) == IF o.some THEN o.val ELSE default

\* ---------------------------------------------------- utils/isentropic.rs

\* line 124 with the comparison not strict
valid_specific_heat_ratio_inclusive(specific_heat_ratio) ==
    FGe(specific_heat_ratio, F(1))

\* lines 122-125
valid_specific_heat_ratio(specific_heat_ratio) == FGt(specific_heat_ratio, F(1))

calc_mach_angle_from_mach(mach_number) ==
    IF FLt(mach_number, 0) THEN Err("invalid mach number")
    ELSE Ok(Asin(FDiv(F(1), mach_number)))

calc_pressure_ratio_from_mach(mach_number, specific_heat_ratio) ==
    IF ~valid_specific_heat_ratio(specific_heat_ratio)
    THEN Err("invalid specific heat ratio")
    ELSE Ok(Powf(FAdd(F(1), FMul(FDiv(FSub(specific_heat_ratio, F(1)), F(2)),
                                 FSq(mach_number))),
                 FDiv(FNeg(specific_heat_ratio), FSub(specific_heat_ratio, F(1)))))

calc_temperature_ratio_from_mach(mach_number, specific_heat_ratio) ==
    IF ~valid_specific_heat_ratio(specific_heat_ratio)
    THEN Err("invalid specific heat ratio")
    ELSE Ok(FDiv(F(1), FAdd(F(1), FMul(FDiv(FSub(specific_heat_ratio, F(1)), F(2)),
                                       FSq(mach_number)))))

calc_density_ratio_from_mach(mach_number, specific_heat_ratio) ==
    IF ~valid_specific_heat_ratio(specific_heat_ratio)
    THEN Err("invalid specific heat ratio")
    ELSE Ok(Powf(FAdd(F(1), FMul(FDiv(FSub(specific_heat_ratio, F(1)), F(2)),
                                 FSq(mach_number))),
                 FDiv(FNeg(F(1)), FSub(specific_heat_ratio, F(1)))))

calc_mach_from_speed_of_sound(velocity, speed_of_sound) ==
    Ok(FDiv(velocity, speed_of_sound))

\* lines 51-54, eta being (mach_number.powi(2) - 1.0).sqrt()
prandtl_meyer_angle_of(sqrt_gamma_ratio, eta) ==
    FSub(FMul(FDiv(F(1), sqrt_gamma_ratio), Atan(FMul(sqrt_gamma_ratio, eta))),
         Atan(eta))

prandtl_meyer_function(mach_number, specific_heat_ratio) ==
    IF ~valid_specific_heat_ratio(specific_heat_ratio)
    THEN Err("invalid specific heat ratio")
    ELSE IF FLe(mach_number, F(1)) THEN Err("invalid mach number")
    ELSE Ok(prandtl_meyer_angle_of(
                FSqrt(FDiv(FSub(specific_heat_ratio, F(1)),
                           FAdd(specific_heat_ratio, F(1)))),
                FSqrt(FSub(FSq(mach_number), F(1)))))

calc_mach_from_mach_angle(mach_angle) ==
    IF FLt(mach_angle, 0) \/ FGt(mach_angle, FDiv(PI, F(2)))
    THEN Err("invalid mach angle")
    ELSE Ok(FDiv(F(1), Sin(mach_angle)))

calc_mach_from_temperature_ratio(temperature_ratio, specific_heat_ratio) ==
    IF ~valid_specific_heat_ratio(specific_heat_ratio)
    THEN Err("invalid specific heat ratio")
    ELSE IF FLe(temperature_ratio, 0) \/ FGt(temperature_ratio, F(1))
    THEN Err("invalid temperature ratio")
    ELSE Ok(FSqrt(FDiv(FMul(F(2), FSub(FDiv(F(1), temperature_ratio), F(1))),
                       FSub(specific_heat_ratio, F(1)))))

calc_mach_from_pressure_ratio(pressure_ratio, specific_heat_ratio) ==
    IF ~valid_specific_heat_ratio(specific_heat_ratio)
    THEN Err("invalid specific heat ratio")
    ELSE IF FLe(pressure_ratio, 0) \/ FGt(pressure_ratio, F(1))
    THEN Err("invalid pressure ratio")
    ELSE Ok(FSqrt(FDiv(
            FMul(F(2),
                 FSub(FDiv(F(1),
                           Powf(pressure_ratio,
                                FDiv(FSub(specific_heat_ratio, F(1)),
                                     specific_heat_ratio))),
                      F(1))),
            FSub(specific_heat_ratio, F(1)))))

calc_mach_from_density_ratio(density_ratio, specific_heat_ratio) ==
    IF ~valid_specific_heat_ratio(specific_heat_ratio)
    THEN Err("invalid specific heat ratio")
    ELSE IF FLe(density_ratio, 0) \/ FGt(density_ratio, F(1))
    THEN Err("invalid density ratio")
    ELSE Ok(FSqrt(FDiv(
            FMul(F(2),
                 FSub(FDiv(F(1), Powf(density_ratio, FSub(specific_heat_ratio, F(1)))),
                      F(1))),
            FSub(specific_heat_ratio, F(1)))))

\* --------------------------------------------------- utils/obliqueshock.rs

calc_normal_upstream_mach(upstream_mach, shock_angle) ==
    IF FLe(upstream_mach, F(1)) THEN Err("invalid mach number")
    ELSE Ok(FMul(upstream_mach, Sin(shock_angle)))

calc_normal_downstream_mach(downstream_mach, shock_angle, deflection_angle) ==
    IF FLe(downstream_mach, F(1)) THEN Err("invalid mach number")
    ELSE Ok(FMul(downstream_mach, Sin(FSub(shock_angle, deflection_angle))))

\* lines 11-17, normal_upstream_mach being the value of line 8
downstream_mach_of(normal_upstream_mach, shock_angle, deflection_angle, specific_heat_ratio) ==
    FDiv(FSqrt(FDiv(
                FAdd(F(1), FDiv(FMul(FSub(specific_heat_ratio, F(1)),
                                     FSq(normal_upstream_mach)), F(2))),
                FSub(FMul(specific_heat_ratio, FSq(normal_upstream_mach)),
                     FDiv(FSub(specific_heat_ratio, F(1)), F(2))))),
         Sin(FSub(shock_angle, deflection_angle)))

\* lines 8-17, normal being the Result of line 8 met by ?
downstream_mach_after(normal, shock_angle, deflection_angle, specific_heat_ratio) ==
    IF normal.tag = "Err" THEN normal
    ELSE Ok(downstream_mach_of(normal.val, shock_angle, deflection_angle,
                               specific_heat_ratio))

calc_downstream_mach(upstream_mach, shock_angle, deflection_angle, specific_heat_ratio) ==
    downstream_mach_after(calc_normal_upstream_mach(upstream_mach, shock_angle),
                          shock_angle, deflection_angle, specific_heat_ratio)

calc_deflection_angle(upstream_mach, shock_angle, specific_heat_ratio) ==
    Ok(Atan(FDiv(
        FMul(FDiv(F(2), Tan(shock_angle)),
             FSub(FMul(FSq(upstream_mach), FSq(Sin(shock_angle))), F(1))),
        FAdd(FMul(FSq(upstream_mach),
                  FAdd(specific_heat_ratio, Cos(FMul(F(2), shock_angle)))),
             F(2)))))

\* line 21 met by ?, then line 22
downstream_mach_from(deflection, upstream_mach, shock_angle, specific_heat_ratio) ==
    IF deflection.tag = "Err" THEN deflection
    ELSE calc_downstream_mach(upstream_mach, shock_angle, deflection.val,
                              specific_heat_ratio)

calc_downstream_mach_from_shock_angle(upstream_mach, shock_angle, specific_heat_ratio) ==
    downstream_mach_from(
        calc_deflection_angle(upstream_mach, shock_angle, specific_heat_ratio),
        upstream_mach, shock_angle, specific_heat_ratio)

calc_pressure_ratio(upstream_mach, shock_angle, specific_heat_ratio) ==
    Ok(FDiv(FSub(FMul(FMul(FMul(F(2), specific_heat_ratio), FSq(upstream_mach)),
                      FSq(Sin(shock_angle))),
                 FSub(specific_heat_ratio, F(1))),
            FAdd(specific_heat_ratio, F(1))))

calc_density_ratio(upstream_mach, shock_angle, specific_heat_ratio) ==
    Ok(FDiv(FMul(FMul(FAdd(specific_heat_ratio, F(1)), FSq(upstream_mach)),
                 FSq(Sin(shock_angle))),
            FAdd(FMul(FMul(FSub(specific_heat_ratio, F(1)), FSq(upstream_mach)),
                      FSq(Sin(shock_angle))),
                 F(2))))

\* lines 55-58, pressure and density being the Results met by ?
temperature_ratio_of(pressure, density) ==
    IF pressure.tag = "Err" THEN pressure
    ELSE IF density.tag = "Err" THEN density
    ELSE Ok(FMul(pressure.val, FDiv(F(1), density.val)))

calc_temperature_ratio(upstream_mach, shock_angle, specific_heat_ratio) ==
    temperature_ratio_of(
        calc_pressure_ratio(upstream_mach, shock_angle, specific_heat_ratio),
        calc_density_ratio(upstream_mach, shock_angle, specific_heat_ratio))

\* lines 65-68, density and pressure being the Results met by ?
stagnation_pressure_ratio_of(density, pressure, specific_heat_ratio) ==
    IF density.tag = "Err" THEN density
    ELSE IF pressure.tag = "Err" THEN pressure
    ELSE Ok(FMul(Powf(density.val,
                      FDiv(specific_heat_ratio, FSub(specific_heat_ratio, F(1)))),
                 Powf(FDiv(F(1), pressure.val),
                      FDiv(F(1), FSub(specific_heat_ratio, F(1))))))

calc_stagnation_pressure_ratio(upstream_mach, shock_angle, specific_heat_ratio) ==
    IF ~valid_specific_heat_ratio(specific_heat_ratio)
    THEN Err("invalid specific heat ratio")
    ELSE stagnation_pressure_ratio_of(
            calc_density_ratio(upstream_mach, shock_angle, specific_heat_ratio),
            calc_pressure_ratio(upstream_mach, shock_angle, specific_heat_ratio),
            specific_heat_ratio)

\* lines 113-118
max_shock_angle_of(sin_max_shock_angle) ==
    IF FGt(sin_max_shock_angle, F(1)) \/ FLt(sin_max_shock_angle, 0)
    THEN Err("math error")
    ELSE Ok(Asin(sin_max_shock_angle))

\* lines 103-111
sin_max_shock_angle(upstream_mach, specific_heat_ratio) ==
    FSqrt(FMul(
        FDiv(F(1), FMul(specific_heat_ratio, FSq(upstream_mach))),
        FAdd(F(1),
             FMul(FAdd(specific_heat_ratio, F(1)),
                  FSqrt(FAdd(FAdd(
                      FDiv(FMul(FAdd(specific_heat_ratio, F(1)),
                                FSq(FSq(upstream_mach))), F(16)),
                      FDiv(FMul(FSub(specific_heat_ratio, F(1)),
                                FSq(upstream_mach)), F(2))),
                      F(1)))))))

\* lines 95-119
calc_max_shock_angle(upstream_mach, specific_heat_ratio) ==
    IF ~valid_specific_heat_ratio(specific_heat_ratio)
    THEN Err("invalid specific heat ratio")
    ELSE IF FLe(upstream_mach, F(1)) THEN Err("invalid mach number")
    ELSE max_shock_angle_of(sin_max_shock_angle(upstream_mach, specific_heat_ratio))

\* ------------------------------------------------------ utils/numerics.rs

\* A tolerance is a count of 1e-9 and the derivative guard a count of 1e-12.
NanoPerMilli == 10^6
PicoPerMilli == 10^9
\* 1e-9, line 11 and line 45
DefaultTolerance == 1
\* 200, line 12 and line 46
DefaultMaxIters == 200
\* 1e-12, line 60
DerivativeGuard == 1

CeilDiv(n, d) == -((-n) \div d)

\* a < tolerance and a <= tolerance, for a tolerance >= 0
FLtTol(a, tolerance) == ~IsNaN(a) /\ a < CeilDiv(tolerance, NanoPerMilli)
FLeTol(a, tolerance) == ~IsNaN(a) /\ a <= tolerance \div NanoPerMilli
\* a < guard
FLtGuard(a, guard) == ~IsNaN(a) /\ a < CeilDiv(guard, PicoPerMilli)

\* The closures handed to the root finders:
\*   polynomial     a x^2 + b x + c, a function of a caller
\*   deflection     f of calc_shock_angle, obliqueshock.rs lines 75-81
\*   prandtl_meyer  f of calc_mach_from_prandtl_meyer_angle, isentropic.rs
\*                  lines 109-112
\*   prandtl_meyer_slope  its df, isentropic.rs lines 113-116
Polynomial(a, b, c) == [kind |-> "polynomial", a |-> a, b |-> b, c |-> c]

DeflectionResidual(upstream_mach, deflection_angle, specific_heat_ratio) ==
    [kind |-> "deflection", upstream_mach |-> upstream_mach,
     deflection_angle |-> deflection_angle,
     specific_heat_ratio |-> specific_heat_ratio]

PrandtlMeyerResidual(alpha, prandtl_meyer_angle) ==
    [kind |-> "prandtl_meyer", alpha |-> alpha,
     prandtl_meyer_angle |-> prandtl_meyer_angle]

PrandtlMeyerSlope(alpha) == [kind |-> "prandtl_meyer_slope", alpha |-> alpha]

\* f(x) for a closure f
Apply(f, x) ==
    CASE f.kind = "polynomial" ->
            FAdd(FAdd(FMul(f.a, FSq(x)), FMul(f.b, x)), f.c)
      [] f.kind = "deflection" ->
            FSub(calc_deflection_angle(f.upstream_mach, x, f.specific_heat_ratio).val,
                 f.deflection_angle)
      [] f.kind = "prandtl_meyer" ->
            FSub(FSub(FMul(f.alpha, Atan(FDiv(x, f.alpha))), Atan(x)),
                 f.prandtl_meyer_angle)
      [] f.kind = "prandtl_meyer_slope" ->
            FSub(FDiv(F(1), FAdd(FSq(FDiv(x, f.alpha)), F(1))),
                 FDiv(F(1), FAdd(FSq(x), F(1))))

\* a loop over 0..=n, one iteration too many
LoopRunsInclusive(i, n) == i <= n

\* for _ in 0..n: whether iteration number i (from 0) is run
LoopRuns(i, n) == i < n

\* what a root finder hands back: a value, or a panic that ends the process
Returned(x, iters) == [tag |-> "Ok", val |-> x, msg |-> "", iters |-> iters]
Panicked(msg, iters) == [tag |-> "Panic", val |-> 0, msg |-> msg, iters |-> iters]

\* line 15
LowerOf(x1, x2) == IF FLt(x1, x2) THEN x1 ELSE x2
UpperOf(x1, x2) == IF FLt(x1, x2) THEN x2 ELSE x1

\* line 19
Midpoint(lower, upper) == FDiv(FAdd(upper, lower), F(2))

\* line 22
BisectionConverged(f, midpoint, lower, upper, tolerance) ==
    \/ FLtTol(FAbs(Apply(f, midpoint)), tolerance)
    \/ FLtTol(FDiv(FSub(upper, lower), F(2)), tolerance)

\* line 27 with the sign test turned round
MovesLowerOnSignChange(f, midpoint, lower) ==
    FLt(FMul(Apply(f, midpoint), Apply(f, lower)), 0)

\* line 27 with the sign test not strict
MovesLowerOrZero(f, midpoint, lower) ==
    FGe(FMul(Apply(f, midpoint), Apply(f, lower)), 0)

\* line 27
MovesLower(f, midpoint, lower) ==
    FGt(FMul(Apply(f, midpoint), Apply(f, lower)), 0)

\* The for loop of bisection as a function of its state: the bounds, the
\* iterations begun, and the value returned, if one has been.

\* lines 19-31: one iteration, from the midpoint
bisection_iteration(f, tolerance, s, midpoint) ==
    IF BisectionConverged(f, midpoint, s.lower, s.upper, tolerance)
    THEN [s EXCEPT !.returned = TRUE, !.val = midpoint, !.i = s.i + 1]
    ELSE IF MovesLower(f, midpoint, s.lower)
    THEN [s EXCEPT !.lower = midpoint, !.i = s.i + 1]
    ELSE [s EXCEPT !.upper = midpoint, !.i = s.i + 1]

\* one iteration, unless the function has returned
bisection_step(f, tolerance, s) ==
    IF s.returned THEN s
    ELSE bisection_iteration(f, tolerance, s, Midpoint(s.lower, s.upper))

\* line 18: n iterations from the state s, fewer if one of them returns
RECURSIVE bisection_iterations(_, _, _, _)
RECURSIVE bisection_rest(_, _, _, _)
bisection_rest(f, tolerance, s, n) ==
    IF s.returned THEN s ELSE bisection_iterations(f, tolerance, s, n)

bisection_iterations(f, tolerance, s, n) ==
    IF n <= 0 THEN s
    ELSE IF n = 1 THEN bisection_step(f, tolerance, s)
    ELSE bisection_rest(f, tolerance,
                        bisection_iterations(f, tolerance, s, n \div 2),
                        n - n \div 2)

\* lines 23 and 34: the value returned, or the panic after the loop
bisection_end(s) ==
    IF s.returned THEN Returned(s.val, s.i)
    ELSE Panicked("solution not converged", s.i)

\* lines 3-35
bisection(f, x1, x2, tolerance, max_iters) ==
    bisection_end(bisection_iterations(
        f, unwrap_or(tolerance, DefaultTolerance),
        [lower |-> LowerOf(x1, x2), upper |-> UpperOf(x1, x2), i |-> 0,
         returned |-> FALSE, val |-> 0],
        unwrap_or(max_iters, DefaultMaxIters)))

\* line 60
DerivativeTooSmall(df_value) == FLtGuard(FAbs(df_value), DerivativeGuard)

\* line 63
NewtonUpdate(x, f_value, df_value) == FSub(x, FDiv(f_value, df_value))

\* line 70 with the test strict
NewtonConvergedStrict(x_next, x, tolerance) ==
    FLtTol(FAbs(FSub(x_next, x)), tolerance)

\* line 70
NewtonConverged(x_next, x, tolerance) == FLeTol(FAbs(FSub(x_next, x)), tolerance)

\* The for loop of newton_raphson as a function of its state: x_current,
\* f_current, df_curr, the iterations begun, and how the function has ended,
\* if it has ("run" while it has not).

\* lines 66-78: the rest of an iteration, from x_next
newton_advance(f, df, tolerance, s, x_next) ==
    IF NewtonConverged(x_next, s.x, tolerance)
    THEN [s EXCEPT !.tag = "Ok", !.val = x_next, !.x = x_next, !.i = s.i + 1]
    ELSE [s EXCEPT !.x = x_next, !.f_value = Apply(f, x_next),
                   !.df_value = Apply(df, x_next), !.i = s.i + 1]

\* lines 60-78: one iteration, unless the function has ended
newton_step(f, df, tolerance, s) ==
    IF s.tag # "run" THEN s
    ELSE IF DerivativeTooSmall(s.df_value)
    THEN [s EXCEPT !.tag = "Panic",
                   !.msg = "derivative is too small, newton-raphson may fail"]
    ELSE newton_advance(f, df, tolerance, s,
                        NewtonUpdate(s.x, s.f_value, s.df_value))

\* line 59: n iterations from the state s, fewer if one of them ends
RECURSIVE newton_iterations(_, _, _, _, _)
RECURSIVE newton_rest(_, _, _, _, _)
newton_rest(f, df, tolerance, s, n) ==
    IF s.tag # "run" THEN s ELSE newton_iterations(f, df, tolerance, s, n)

newton_iterations(f, df, tolerance, s, n) ==
    IF n <= 0 THEN s
    ELSE IF n = 1 THEN newton_step(f, df, tolerance, s)
    ELSE newton_rest(f, df, tolerance,
                     newton_iterations(f, df, tolerance, s, n \div 2),
                     n - n \div 2)

\* lines 72, 61 and 81: the value returned, or the panic
newton_end(s) ==
    IF s.tag = "Ok" THEN Returned(s.val, s.i)
    ELSE IF s.tag = "Panic" THEN Panicked(s.msg, s.i)
    ELSE Panicked("solution not converged", s.i)

\* lines 37-82
newton_raphson(f, df, x_init, tolerance, max_iters) ==
    newton_end(newton_iterations(
        f, df, unwrap_or(tolerance, DefaultTolerance),
        [x |-> x_init, f_value |-> Apply(f, x_init), df_value |-> Apply(df, x_init),
         i |-> 0, tag |-> "run", val |-> 0, msg |-> ""],
        unwrap_or(max_iters, DefaultMaxIters)))

\* ------------------------------------- the relations that call a root finder

\* the Result of a function whose root finder handed back r after the
\* calls listed
AfterRootFinder(r, result, calls) ==
    IF r.tag = "Panic"
    THEN [tag |-> "Panic", val |-> 0, msg |-> r.msg, calls |-> calls]
    ELSE [tag |-> result.tag, val |-> result.val, msg |-> result.msg, calls |-> calls]

BisectionCall(f, x1, x2, tolerance, max_iters) ==
    [fn |-> "bisection", f |-> f, x1 |-> x1, x2 |-> x2,
     tolerance |-> tolerance, max_iters |-> max_iters]

NewtonCall(f, df, x_init, tolerance, max_iters) ==
    [fn |-> "newton_raphson", f |-> f, df |-> df, x_init |-> x_init,
     tolerance |-> tolerance, max_iters |-> max_iters]

\* obliqueshock.rs line 83 with the bracket opened at zero
lower_bound_zero(deflection_angle) == 0

\* obliqueshock.rs line 83
lower_bound(deflection_angle) == deflection_angle

\* obliqueshock.rs line 84
upper_bound == FDiv(PI, F(2))

\* obliqueshock.rs lines 88-92
shock_angle_result(shock_angle) ==
    IF IsNaN(shock_angle) THEN Err("math error") ELSE Ok(shock_angle)

\* obliqueshock.rs lines 86-92, the bisection started from lower
shock_angle_from(f, lower, found) ==
    AfterRootFinder(found, shock_angle_result(found.val),
                    <<BisectionCall(f, lower, upper_bound, None, None)>>)

shock_angle_between(f, lower) ==
    shock_angle_from(f, lower, bisection(f, lower, upper_bound, None, None))

\* obliqueshock.rs lines 75-92, without the test of lines 72-74
calc_shock_angle_unchecked(upstream_mach, deflection_angle, specific_heat_ratio) ==
    shock_angle_between(
        DeflectionResidual(upstream_mach, deflection_angle, specific_heat_ratio),
        lower_bound(deflection_angle))

\* obliqueshock.rs lines 71-93
calc_shock_angle(upstream_mach, deflection_angle, specific_heat_ratio) ==
    IF FLe(upstream_mach, F(1)) THEN Err("invalid mach number")
    ELSE shock_angle_between(
            DeflectionResidual(upstream_mach, deflection_angle, specific_heat_ratio),
            lower_bound(deflection_angle))

\* obliqueshock.rs lines 26-27, shock being the Result met by ?
downstream_mach_behind(shock, upstream_mach, deflection_angle, specific_heat_ratio) ==
    IF shock.tag # "Ok" THEN shock
    ELSE AfterRootFinder(shock,
            calc_downstream_mach(upstream_mach, shock.val, deflection_angle,
                                 specific_heat_ratio),
            shock.calls)

calc_downstream_mach_from_deflection_angle(upstream_mach, deflection_angle, specific_heat_ratio) ==
    downstream_mach_behind(
        calc_shock_angle(upstream_mach, deflection_angle, specific_heat_ratio),
        upstream_mach, deflection_angle, specific_heat_ratio)

\* isentropic.rs line 117: the initial guess 1.5
EtaGuess == FDiv(F(3), F(2))

\* isentropic.rs lines 117-119
mach_from_eta(f, df, eta) ==
    AfterRootFinder(eta, Ok(FSqrt(FAdd(FSq(eta.val), F(1)))),
                    <<NewtonCall(f, df, EtaGuess, None, None)>>)

mach_from_closures(f, df) ==
    mach_from_eta(f, df, newton_raphson(f, df, EtaGuess, None, None))

\* isentropic.rs lines 108-119
mach_from_alpha(alpha, prandtl_meyer_angle) ==
    mach_from_closures(PrandtlMeyerResidual(alpha, prandtl_meyer_angle),
                       PrandtlMeyerSlope(alpha))

\* isentropic.rs lines 103-120
calc_mach_from_prandtl_meyer_angle(prandtl_meyer_angle, specific_heat_ratio) ==
    IF ~valid_specific_heat_ratio(specific_heat_ratio)
    THEN Err("invalid specific heat ratio")
    ELSE mach_from_alpha(FSqrt(FDiv(FAdd(specific_heat_ratio, F(1)),
                                    FSub(specific_heat_ratio, F(1)))),
                         prandtl_meyer_angle)

\* ------------------------------------------------------ taylormaccoll.rs

\* streamline(velocity_vector, r): dr/dtheta = r * u / v, always Ok
streamline(u, v, r) == [ok |-> TRUE, val |-> FDiv(FMul(r, u), v)]

\* taylor_maccoll(velocity_vector, theta, gamma): (du/dtheta, dv/dtheta), always Ok
taylor_maccoll(u, v, theta, gamma) ==
    [ok |-> TRUE,
     radial_derivative |->
        FAdd(v, FDiv(FMul(FMul(FMul(FDiv(FSub(gamma, F(1)), F(2)), u), v),
                          FAdd(u, FDiv(FMul(v, F(1)), Tan(theta)))),
                     FSub(FSq(v), F(1)))),
     tangential_derivative |->
        FAdd(FNeg(u),
             FDiv(FMul(FAdd(F(1), FMul(FDiv(FSub(gamma, F(1)), F(2)), FSq(v))),
                       FAdd(u, FDiv(FMul(v, F(1)), Tan(theta)))),
                  FSub(FSq(v), F(1))))]

\* the literals 0.5 and 1.0 / 6.0
Half == FDiv(F(1), F(2))
Sixth == FDiv(F(1), F(6))

\* k1 + 2.0 * k2 + 2.0 * k3 + k4
RKSum(k1, k2, k3, k4) ==
    FAdd(FAdd(FAdd(k1, FMul(F(2), k2)), FMul(F(2), k3)), k4)

\* The body of the for loop of solve_taylor_maccoll up to the break clause,
\* in the order of the source: the four Runge-Kutta constants, then the
\* candidate next state and its cross_stream_mach.  A ? that meets an Err of
\* taylor_maccoll or streamline ends the pass with err set.  stage_v lists
\* the tangential component of the velocity vector of every stage begun.

RKErr(stage_v) ==
    [err |-> TRUE, u |-> 0, v |-> 0, r |-> 0, theta |-> 0, cross |-> 0,
     stage_v |-> stage_v]

\* the three constants of one stage from the derivatives d and the
\* streamline slope s at the stage vector, of tangential component v
RKPack(hstep, d, s, v) ==
    [ok |-> d.ok /\ s.ok,
     radial |-> FMul(hstep, d.radial_derivative),
     tangential |-> FMul(hstep, d.tangential_derivative),
     contour |-> FMul(hstep, s.val),
     v |-> v]

\* the constants of the stage at velocity (u, v), angle theta and radius r
RKConstant(u, v, theta, r, hstep, gamma) ==
    RKPack(hstep, taylor_maccoll(u, v, theta, gamma), streamline(u, v, r), v)

\* lines 152-154, with the candidate next state
RKResult(next_u, next_v, next_r, next_theta, stage_v) ==
    [err |-> FALSE,
     u |-> next_u,
     v |-> next_v,
     r |-> next_r,
     theta |-> next_theta,
     cross |-> FAdd(FMul(next_u, Sin(next_theta)), FMul(next_v, Cos(next_theta))),
     stage_v |-> stage_v]

\* lines 139-149: the candidate next state
RKCandidate(cu, cv, cr, ct, hstep, k1, k2, k3, k4) ==
    IF ~k4.ok THEN RKErr(<<k1.v, k2.v, k3.v, k4.v>>)
    ELSE RKResult(
            FAdd(cu, FMul(Sixth, RKSum(k1.radial, k2.radial, k3.radial, k4.radial))),
            FAdd(cv, FMul(Sixth, RKSum(k1.tangential, k2.tangential,
                                       k3.tangential, k4.tangential))),
            FAdd(cr, FMul(Sixth, RKSum(k1.contour, k2.contour, k3.contour, k4.contour))),
            FAdd(ct, hstep),
            <<k1.v, k2.v, k3.v, k4.v>>)

\* lines 128-137: the fourth Runge-Kutta constant
RKStage4(cu, cv, cr, ct, hstep, gamma, k1, k2, k3) ==
    IF ~k3.ok THEN RKErr(<<k1.v, k2.v, k3.v>>)
    ELSE RKCandidate(cu, cv, cr, ct, hstep, k1, k2, k3,
            RKConstant(FAdd(cu, k3.radial), FAdd(cv, k3.tangential),
                       FAdd(ct, hstep), FAdd(cr, k3.contour), hstep, gamma))

\* lines 117-126: the third Runge-Kutta constant
RKStage3(cu, cv, cr, ct, hstep, gamma, k1, k2) ==
    IF ~k2.ok THEN RKErr(<<k1.v, k2.v>>)
    ELSE RKStage4(cu, cv, cr, ct, hstep, gamma, k1, k2,
            RKConstant(FAdd(cu, FMul(Half, k2.radial)),
                       FAdd(cv, FMul(Half, k2.tangential)),
                       FAdd(ct, FMul(Half, hstep)),
                       FAdd(cr, FMul(Half, k2.contour)), hstep, gamma))

\* lines 106-115: the second Runge-Kutta constant
RKStage2(cu, cv, cr, ct, hstep, gamma, k1) ==
    IF ~k1.ok THEN RKErr(<<k1.v>>)
    ELSE RKStage3(cu, cv, cr, ct, hstep, gamma, k1,
            RKConstant(FAdd(cu, FMul(Half, k1.radial)),
                       FAdd(cv, FMul(Half, k1.tangential)),
                       FAdd(ct, FMul(Half, hstep)),
                       FAdd(cr, FMul(Half, k1.contour)), hstep, gamma))

\* lines 95-154, the first Runge-Kutta constant at lines 96-104
RKStep(cu, cv, cr, ct, hstep, gamma) ==
    RKStage2(cu, cv, cr, ct, hstep, gamma,
             RKConstant(cu, cv, ct, cr, hstep, gamma))

\* ------------------------------------------------ the parts not under study
\* Each specification below runs one part of the program; these predicates
\* hold the variables of the other parts still.

NoArgs == [none |-> TRUE]

TMOff ==
    /\ tm_pc = "off"
    /\ tm_args = NoArgs
    /\ h = 0
    /\ results = <<>>
    /\ current_radial_velocity = 0
    /\ current_tangential_velocity = 0
    /\ current_radial_distance = 0
    /\ current_theta = 0
    /\ tm_step = 0
    /\ tm_ret = "none"
    /\ cross_log = <<>>
    /\ stage_log = <<>>

BisOff ==
    /\ bis_pc = "off"
    /\ bis_args = NoArgs
    /\ bis_tolerance = 0
    /\ bis_max_iters = 0
    /\ lowerbound = 0
    /\ upperbound = 0
    /\ bis_i = 0
    /\ bis_ret = "none"
    /\ bis_val = 0

NROff ==
    /\ nr_pc = "off"
    /\ nr_args = NoArgs
    /\ nr_tolerance = 0
    /\ nr_max_iters = 0
    /\ x_current = 0
    /\ f_current = 0
    /\ df_curr = 0
    /\ nr_i = 0
    /\ nr_ret = "none"
    /\ nr_val = 0
    /\ nr_msg = ""
    /\ nr_divisors = <<>>

NoResult == [tag |-> "none", val |-> 0, msg |-> "", calls |-> <<>>]

FlowOff ==
    /\ flow_call = NoArgs
    /\ flow_res = NoResult

\* ------------------------------------------ solve_taylor_maccoll, stepwise

MaxSteps == 4

\* the arguments the integrator is called with
TMInputs ==
    [initial_velocity_vector :
         [radial_component : {-1500, 800}, tangential_component : {-1000, -500, 0, 500}],
     initial_theta : {1000, 2500},
     final_theta : {500, 2500},
     initial_r : {1000},
     gamma : {1400},
     steps : 0..MaxSteps]

TMInit ==
    /\ BisOff /\ NROff /\ FlowOff
    /\ tm_pc = "call"
    /\ tm_args \in TMInputs
    /\ h = 0
    /\ results = <<>>
    /\ current_radial_velocity = 0
    /\ current_tangential_velocity = 0
    /\ current_radial_distance = 0
    /\ current_theta = 0
    /\ tm_step = 0
    /\ tm_ret = "none"
    /\ cross_log = <<>>
    /\ stage_log = <<>>

\* a record that stores the radial distance and theta in each other's place
TaylorMaccollResultSwapped(u, v, r, theta) ==
    [velocity_vector |-> [radial_component |-> u, tangential_component |-> v],
     radial_distance |-> theta,
     theta |-> r]

TaylorMaccollResult(u, v, r, theta) ==
    [velocity_vector |-> [radial_component |-> u, tangential_component |-> v],
     radial_distance |-> r,
     theta |-> theta]

\* steps + 1 as f64
AsF64PlusOne(n) == F(n + 1)

\* steps as f64
AsF64(n) == F(n)

\* cross_stream_mach >= 0.0: the break clause
BreakClause(cross_stream_mach) == FGe(cross_stream_mach, 0)

\* lines 76-92: the step size, the initial result, the starting conditions
TMEnter ==
    /\ tm_pc = "call"
    /\ h' = FDiv(FSub(tm_args.final_theta, tm_args.initial_theta), AsF64(tm_args.steps))
    /\ results' = <<TaylorMaccollResult(
                        tm_args.initial_velocity_vector.radial_component,
                        tm_args.initial_velocity_vector.tangential_component,
                        tm_args.initial_r, tm_args.initial_theta)>>
    /\ current_radial_velocity' = tm_args.initial_velocity_vector.radial_component
    /\ current_tangential_velocity' = tm_args.initial_velocity_vector.tangential_component
    /\ current_radial_distance' = tm_args.initial_r
    /\ current_theta' = tm_args.initial_theta
    /\ tm_pc' = "loop"
    /\ UNCHANGED <<tm_args, tm_step, tm_ret, cross_log, stage_log>>
    /\ UNCHANGED <<bisVars, nrVars, flowVars>>

\* lines 94-177: one iteration of the for loop
TMIterate ==
    /\ tm_pc = "loop"
    /\ LoopRuns(tm_step, tm_args.steps)
    /\ \E c \in {RKStep(current_radial_velocity, current_tangential_velocity,
                       current_radial_distance, current_theta, h, tm_args.gamma)} :
           /\ stage_log' = stage_log \o c.stage_v
           /\ IF c.err
              THEN \* a ? returns the Err of taylor_maccoll or streamline
                   /\ tm_pc' = "done"
                   /\ tm_ret' = "Err"
                   /\ UNCHANGED <<results, current_radial_velocity,
                                  current_tangential_velocity, current_radial_distance,
                                  current_theta, tm_step, cross_log>>
              ELSE /\ cross_log' = Append(cross_log, c.cross)
                   /\ IF BreakClause(c.cross)
                      THEN \* break, then Ok(results)
                           /\ tm_pc' = "done"
                           /\ tm_ret' = "Ok"
                           /\ UNCHANGED <<results, current_radial_velocity,
                                          current_tangential_velocity,
                                          current_radial_distance, current_theta, tm_step>>
                      ELSE /\ results' = Append(results,
                                                TaylorMaccollResult(c.u, c.v, c.r, c.theta))
                           /\ current_radial_velocity' = c.u
                           /\ current_tangential_velocity' = c.v
                           /\ current_radial_distance' = c.r
                           /\ current_theta' = c.theta
                           /\ tm_step' = tm_step + 1
                           /\ UNCHANGED <<tm_pc, tm_ret>>
    /\ UNCHANGED <<tm_args, h>>
    /\ UNCHANGED <<bisVars, nrVars, flowVars>>

\* line 179: the loop has run out, Ok(results)
TMReturn ==
    /\ tm_pc = "loop"
    /\ ~LoopRuns(tm_step, tm_args.steps)
    /\ tm_pc' = "done"
    /\ tm_ret' = "Ok"
    /\ UNCHANGED <<tm_args, h, results, current_radial_velocity,
                   current_tangential_velocity, current_radial_distance, current_theta,
                   tm_step, cross_log, stage_log>>
    /\ UNCHANGED <<bisVars, nrVars, flowVars>>

TMNext == TMEnter \/ TMIterate \/ TMReturn

SpecTM == TMInit /\ [][TMNext]_vars

\* ------------------------------------------------------ bisection, stepwise

\* the functions, bounds, tolerances and iteration budgets bisection is
\* called with: x - 1, the constant 1, x, x^2 - 2, and the closure of
\* calc_shock_angle
BisFunctions ==
    {Polynomial(0, F(1), F(-1)), Polynomial(0, 0, F(1)), Polynomial(0, F(1), 0),
     Polynomial(F(1), 0, F(-2)), DeflectionResidual(F(2), 200, 1400)}

\* finite bounds whose sum is above the largest finite number
LargeBounds == {F(1500)} \X {MaxFin}

\* the call of calc_shock_angle, obliqueshock.rs lines 83-86, for Mach 2,
\* deflection 0.2 and gamma 1.4
ShockAngleCall ==
    [f |-> DeflectionResidual(F(2), 200, 1400), x1 |-> lower_bound(200), x2 |-> upper_bound,
     tolerance |-> None, max_iters |-> None]

BisInputs ==
    [f : BisFunctions,
     x1 : {0, 2000, 2500},
     x2 : {0, 2000, PInf},
     tolerance : {None, Some(250 * NanoPerMilli)},
     max_iters : {None, Some(0), Some(2)}]
    \cup {[f |-> f, x1 |-> b[1], x2 |-> b[2], tolerance |-> None, max_iters |-> m] :
              f \in BisFunctions, b \in LargeBounds, m \in {None, Some(2)}}
    \cup {ShockAngleCall}

BisInit ==
    /\ TMOff /\ NROff /\ FlowOff
    /\ bis_pc = "call"
    /\ bis_args \in BisInputs
    /\ bis_tolerance = 0
    /\ bis_max_iters = 0
    /\ lowerbound = 0
    /\ upperbound = 0
    /\ bis_i = 0
    /\ bis_ret = "none"
    /\ bis_val = 0

\* lines 11-15: the defaults and the ordered bounds
BisectEnter ==
    /\ bis_pc = "call"
    /\ bis_tolerance' = unwrap_or(bis_args.tolerance, DefaultTolerance)
    /\ bis_max_iters' = unwrap_or(bis_args.max_iters, DefaultMaxIters)
    /\ lowerbound' = LowerOf(bis_args.x1, bis_args.x2)
    /\ upperbound' = UpperOf(bis_args.x1, bis_args.x2)
    /\ bis_pc' = "loop"
    /\ UNCHANGED <<bis_args, bis_i, bis_ret, bis_val>>
    /\ UNCHANGED <<tmVars, nrVars, flowVars>>

\* lines 18-32: one iteration of the for loop
BisectIterate ==
    /\ bis_pc = "loop"
    /\ LoopRuns(bis_i, bis_max_iters)
    /\ \E midpoint \in {Midpoint(lowerbound, upperbound)} :
           IF BisectionConverged(bis_args.f, midpoint, lowerbound, upperbound,
                                 bis_tolerance)
           THEN /\ bis_pc' = "done"
                /\ bis_ret' = "Ok"
                /\ bis_val' = midpoint
                /\ UNCHANGED <<lowerbound, upperbound>>
           ELSE /\ IF MovesLower(bis_args.f, midpoint, lowerbound)
                   THEN lowerbound' = midpoint /\ UNCHANGED upperbound
                   ELSE upperbound' = midpoint /\ UNCHANGED lowerbound
                /\ UNCHANGED <<bis_pc, bis_ret, bis_val>>
    /\ bis_i' = bis_i + 1
    /\ UNCHANGED <<bis_args, bis_tolerance, bis_max_iters>>
    /\ UNCHANGED <<tmVars, nrVars, flowVars>>

\* line 34: the loop has run out, panic!("solution not converged")
BisectPanic ==
    /\ bis_pc = "loop"
    /\ ~LoopRuns(bis_i, bis_max_iters)
    /\ bis_pc' = "done"
    /\ bis_ret' = "Panic"
    /\ UNCHANGED <<bis_args, bis_tolerance, bis_max_iters, lowerbound, upperbound,
                   bis_i, bis_val>>
    /\ UNCHANGED <<tmVars, nrVars, flowVars>>

BisNext == BisectEnter \/ BisectIterate \/ BisectPanic

SpecBisect == BisInit /\ [][BisNext]_vars

\* ------------------------------------------------- newton_raphson, stepwise

\* the pairs (f, df) newton_raphson is called with: x^2 - 2, the constant 1
\* with slope taken as 1, x, and x^2 + 1
NRFunctions ==
    {<<Polynomial(F(1), 0, F(-2)), Polynomial(0, F(2), 0)>>,
     <<Polynomial(0, 0, F(1)), Polynomial(0, 0, F(1))>>,
     <<Polynomial(0, F(1), 0), Polynomial(0, 0, F(1))>>,
     <<Polynomial(F(1), 0, F(1)), Polynomial(0, F(2), 0)>>}

NRInputs ==
    [fs : NRFunctions,
     x_init : {0, 1000, 1500},
     tolerance : {None, Some(NanoPerMilli), Some(1000 * NanoPerMilli)},
     max_iters : {None, Some(0), Some(3)}]

NRInit ==
    /\ TMOff /\ BisOff /\ FlowOff
    /\ nr_pc = "call"
    /\ nr_args \in NRInputs
    /\ nr_tolerance = 0
    /\ nr_max_iters = 0
    /\ x_current = 0
    /\ f_current = 0
    /\ df_curr = 0
    /\ nr_i = 0
    /\ nr_ret = "none"
    /\ nr_val = 0
    /\ nr_msg = ""
    /\ nr_divisors = <<>>

\* lines 45-56: the defaults, the initial guess and the first evaluations
NewtonEnter ==
    /\ nr_pc = "call"
    /\ nr_tolerance' = unwrap_or(nr_args.tolerance, DefaultTolerance)
    /\ nr_max_iters' = unwrap_or(nr_args.max_iters, DefaultMaxIters)
    /\ x_current' = nr_args.x_init
    /\ f_current' = Apply(nr_args.fs[1], nr_args.x_init)
    /\ df_curr' = Apply(nr_args.fs[2], nr_args.x_init)
    /\ nr_pc' = "loop"
    /\ UNCHANGED <<nr_args, nr_i, nr_ret, nr_val, nr_msg, nr_divisors>>
    /\ UNCHANGED <<tmVars, bisVars, flowVars>>

\* lines 59-79: one iteration of the for loop
NewtonIterate ==
    /\ nr_pc = "loop"
    /\ LoopRuns(nr_i, nr_max_iters)
    /\ IF DerivativeTooSmall(df_curr)
       THEN \* lines 60-62
            /\ nr_pc' = "done"
            /\ nr_ret' = "Panic"
            /\ nr_msg' = "derivative is too small, newton-raphson may fail"
            /\ UNCHANGED <<x_current, f_current, df_curr, nr_i, nr_val, nr_divisors>>
       ELSE \E x_next \in {NewtonUpdate(x_current, f_current, df_curr)} :
            /\ nr_divisors' = Append(nr_divisors, df_curr)
            /\ x_current' = x_next
            /\ nr_i' = nr_i + 1
            /\ IF NewtonConverged(x_next, x_current, nr_tolerance)
               THEN \* lines 70-73
                    /\ nr_pc' = "done"
                    /\ nr_ret' = "Ok"
                    /\ nr_val' = x_next
                    /\ UNCHANGED <<f_current, df_curr, nr_msg>>
               ELSE \* lines 76-78
                    /\ f_current' = Apply(nr_args.fs[1], x_next)
                    /\ df_curr' = Apply(nr_args.fs[2], x_next)
                    /\ UNCHANGED <<nr_pc, nr_ret, nr_val, nr_msg>>
    /\ UNCHANGED <<nr_args, nr_tolerance, nr_max_iters>>
    /\ UNCHANGED <<tmVars, bisVars, flowVars>>

\* line 81: the loop has run out, panic!("solution not converged")
NewtonPanic ==
    /\ nr_pc = "loop"
    /\ ~LoopRuns(nr_i, nr_max_iters)
    /\ nr_pc' = "done"
    /\ nr_ret' = "Panic"
    /\ nr_msg' = "solution not converged"
    /\ UNCHANGED <<nr_args, nr_tolerance, nr_max_iters, x_current, f_current, df_curr,
                   nr_i, nr_val, nr_divisors>>
    /\ UNCHANGED <<tmVars, bisVars, flowVars>>

NRNext == NewtonEnter \/ NewtonIterate \/ NewtonPanic

SpecNewton == NRInit /\ [][NRNext]_vars

\* --------------------------------------------- one call of a flow relation

\* obliqueshock.rs lines 207-213: the shock angle found for the deflection
\* that a known shock angle gives
shock_angle_of_known(upstream_mach, known_shock_angle, specific_heat_ratio) ==
    calc_shock_angle(upstream_mach,
                     calc_deflection_angle(upstream_mach, known_shock_angle,
                                           specific_heat_ratio).val,
                     specific_heat_ratio)

\* the relations that take (mach_number, specific_heat_ratio)
MachGammaRelations ==
    {"calc_pressure_ratio_from_mach", "calc_temperature_ratio_from_mach",
     "calc_density_ratio_from_mach", "prandtl_meyer_function",
     "calc_max_shock_angle"}

\* the relations that take (ratio, specific_heat_ratio)
RatioGammaRelations ==
    {"calc_mach_from_temperature_ratio", "calc_mach_from_pressure_ratio",
     "calc_mach_from_density_ratio"}

\* the relations that take (upstream_mach, shock_angle, specific_heat_ratio)
ShockAngleRelations ==
    {"calc_deflection_angle", "calc_pressure_ratio", "calc_density_ratio",
     "calc_temperature_ratio", "calc_stagnation_pressure_ratio",
     "calc_downstream_mach_from_shock_angle"}

\* the relations that take (upstream_mach, deflection_angle, specific_heat_ratio)
DeflectionRelations ==
    {"calc_shock_angle", "calc_downstream_mach_from_deflection_angle"}

\* the relations that take the specific heat ratio, as the last argument
GammaRelations ==
    MachGammaRelations \cup RatioGammaRelations \cup ShockAngleRelations
        \cup DeflectionRelations \cup {"calc_mach_from_prandtl_meyer_angle"}

\* specific heat ratios: 0.9, 1.0 and 1.4
Gammas == {900, 1000, 1400}

\* shock angles of the round trip, pi/4 first
KnownShockAngles == {785, 600, 900, 983, 1033, 1099, 1300}

\* the forward relations of (mach_number, specific_heat_ratio) with their
\* inverses, isentropic.rs lines 223-272
RoundTripsWithGamma ==
    {<<"calc_pressure_ratio_from_mach", "calc_mach_from_pressure_ratio">>,
     <<"calc_temperature_ratio_from_mach", "calc_mach_from_temperature_ratio">>,
     <<"calc_density_ratio_from_mach", "calc_mach_from_density_ratio">>,
     <<"prandtl_meyer_function", "calc_mach_from_prandtl_meyer_angle">>}

\* Mach numbers of the round trips
RoundTripMachs == {0, 500, 1000, 1500, 2000, 2500}

RoundTripCalls ==
    {[fn |-> "round_trip", args |-> <<p[1], p[2], <<m, 1400>>>>] :
        p \in RoundTripsWithGamma, m \in RoundTripMachs}
    \cup {[fn |-> "round_trip",
           args |-> <<"calc_mach_angle_from_mach", "calc_mach_from_mach_angle",
                      <<m>>>>] : m \in RoundTripMachs}

FlowCalls ==
    RoundTripCalls \cup
    [fn : MachGammaRelations, args : {0, 500, 1000, 2000, 3000} \X Gammas]
    \cup [fn : RatioGammaRelations, args : {-500, 0, 500, 1000, 1500, NaN} \X Gammas]
    \cup [fn : ShockAngleRelations, args : {1000, 2000} \X {785} \X Gammas]
    \cup [fn : DeflectionRelations,
          args : {500, 1000, 2000, 3000} \X {0, 200, 2000, NaN} \X Gammas]
    \cup [fn : {"calc_max_shock_angle"}, args : {PInf} \X Gammas]
    \cup [fn : {"calc_mach_from_prandtl_meyer_angle"},
          args : {200, 459, 1000, 2500} \X Gammas]
    \cup [fn : {"shock_angle_of_known"},
          args : {2000, 3000} \X KnownShockAngles \X {1400}]
    \cup [fn : {"calc_mach_angle_from_mach", "calc_mach_from_mach_angle"},
          args : {<<-1000>>, <<0>>, <<500>>, <<1000>>, <<2000>>}]

\* the call c made
Invoke(c) ==
    CASE c.fn = "calc_mach_angle_from_mach" -> calc_mach_angle_from_mach(c.args[1])
      [] c.fn = "calc_mach_from_mach_angle" -> calc_mach_from_mach_angle(c.args[1])
      [] c.fn = "calc_pressure_ratio_from_mach" ->
            calc_pressure_ratio_from_mach(c.args[1], c.args[2])
      [] c.fn = "calc_temperature_ratio_from_mach" ->
            calc_temperature_ratio_from_mach(c.args[1], c.args[2])
      [] c.fn = "calc_density_ratio_from_mach" ->
            calc_density_ratio_from_mach(c.args[1], c.args[2])
      [] c.fn = "prandtl_meyer_function" -> prandtl_meyer_function(c.args[1], c.args[2])
      [] c.fn = "calc_max_shock_angle" -> calc_max_shock_angle(c.args[1], c.args[2])
      [] c.fn = "calc_mach_from_temperature_ratio" ->
            calc_mach_from_temperature_ratio(c.args[1], c.args[2])
      [] c.fn = "calc_mach_from_pressure_ratio" ->
            calc_mach_from_pressure_ratio(c.args[1], c.args[2])
      [] c.fn = "calc_mach_from_density_ratio" ->
            calc_mach_from_density_ratio(c.args[1], c.args[2])
      [] c.fn = "calc_mach_from_prandtl_meyer_angle" ->
            calc_mach_from_prandtl_meyer_angle(c.args[1], c.args[2])
      [] c.fn = "calc_deflection_angle" ->
            calc_deflection_angle(c.args[1], c.args[2], c.args[3])
      [] c.fn = "calc_pressure_ratio" ->
            calc_pressure_ratio(c.args[1], c.args[2], c.args[3])
      [] c.fn = "calc_density_ratio" ->
            calc_density_ratio(c.args[1], c.args[2], c.args[3])
      [] c.fn = "calc_temperature_ratio" ->
            calc_temperature_ratio(c.args[1], c.args[2], c.args[3])
      [] c.fn = "calc_stagnation_pressure_ratio" ->
            calc_stagnation_pressure_ratio(c.args[1], c.args[2], c.args[3])
      [] c.fn = "calc_downstream_mach_from_shock_angle" ->
            calc_downstream_mach_from_shock_angle(c.args[1], c.args[2], c.args[3])
      [] c.fn = "calc_shock_angle" -> calc_shock_angle(c.args[1], c.args[2], c.args[3])
      [] c.fn = "calc_downstream_mach_from_deflection_angle" ->
            calc_downstream_mach_from_deflection_angle(c.args[1], c.args[2], c.args[3])
      [] c.fn = "shock_angle_of_known" ->
            shock_angle_of_known(c.args[1], c.args[2], c.args[3])

\* isentropic.rs lines 262-272: an inverse relation called with the value a
\* forward relation returned (expect: nothing is called without one), rest
\* being the arguments after the first
inverse_of(forward, inverse, rest) ==
    IF forward.tag # "Ok" THEN forward
    ELSE Invoke([fn |-> inverse, args |-> <<forward.val>> \o rest])

\* the round trip c: forward relation, inverse relation, arguments
round_trip(c) ==
    inverse_of(Invoke([fn |-> c.args[1], args |-> c.args[3]]), c.args[2],
               Tail(c.args[3]))

\* the outcome of the call c
ResultOf(c) == IF c.fn = "round_trip" THEN round_trip(c) ELSE Invoke(c)

FlowInit ==
    /\ TMOff /\ BisOff /\ NROff
    /\ flow_call \in FlowCalls
    /\ flow_res = NoResult

\* the call is made and its outcome kept
FlowCall ==
    /\ flow_res = NoResult
    /\ flow_res' = ResultOf(flow_call)
    /\ UNCHANGED flow_call
    /\ UNCHANGED <<tmVars, bisVars, nrVars>>

FlowNext == FlowCall

SpecFlow == FlowInit /\ [][FlowNext]_vars

\* ------------------------------------------- solve_taylor_maccoll, properties

\* the record pushed at lines 82-86
InitialResult ==
    TaylorMaccollResult(tm_args.initial_velocity_vector.radial_component,
                        tm_args.initial_velocity_vector.tangential_component,
                        tm_args.initial_r, tm_args.initial_theta)

\* the cross_stream_mach of a stored element, as lines 152-154 compute it
CrossStreamOf(e) ==
    FAdd(FMul(e.velocity_vector.radial_component, Sin(e.theta)),
         FMul(e.velocity_vector.tangential_component, Cos(e.theta)))

\* the number of leading candidates with cross_stream_mach < 0
RECURSIVE LeadingNegative(_)
LeadingNegative(log) ==
    IF log = <<>> THEN 0
    ELSE IF FLt(Head(log), 0) THEN 1 + LeadingNegative(Tail(log))
    ELSE 0

Min(a, b) == IF a <= b THEN a ELSE b

\* every number of a stored element is finite
FiniteResult(e) ==
    /\ IsFinite(e.velocity_vector.radial_component)
    /\ IsFinite(e.velocity_vector.tangential_component)
    /\ IsFinite(e.radial_distance)
    /\ IsFinite(e.theta)

\* the tangential component was zero at some Runge-Kutta stage
ZeroTangentialStage == \E i \in 1..Len(stage_log) : stage_log[i] = 0

\* C1: whenever solve_taylor_maccoll returns a sequence, the sequence is
\* non-empty, its first element is the supplied initial condition, and its
\* length is at most steps + 1 (steps = 0 included).
C1_NonEmptyInitialBounded ==
    tm_ret = "Ok" =>
        /\ Len(results) >= 1
        /\ results[1] = InitialResult
        /\ Len(results) <= tm_args.steps + 1

\* C1 witness: a call with at least two steps returned the longest sequence
C1_Witness ==
    /\ tm_ret = "Ok"
    /\ tm_args.steps >= 2
    /\ Len(results) = tm_args.steps + 1

\* C2: the candidate of step k is appended iff the candidates of steps 1..k
\* all have cross_stream < 0, so every element after the first has
\* cross_stream < 0, and the returned length is
\* 1 + min(steps, number of leading candidates with cross_stream < 0).
C2_AppendedWhileNegative ==
    tm_pc \in {"loop", "done"} /\ tm_ret # "Err" =>
        /\ Len(results) = 1 + LeadingNegative(cross_log)
        /\ \A i \in 2..Len(results) : FLt(CrossStreamOf(results[i]), 0)
        /\ tm_ret = "Ok" =>
               Len(results) = 1 + Min(tm_args.steps, LeadingNegative(cross_log))

\* C2 witness: a candidate whose cross_stream is NaN was appended
C2_Witness ==
    /\ tm_ret = "Ok"
    /\ Len(results) >= 2
    /\ IsNaN(cross_log[1])
    /\ LeadingNegative(cross_log) = 0

\* C3: if the tangential component is zero at any Runge-Kutta stage, the
\* call returns an error and no sequence, and no stored state carries a NaN
\* or an infinite value.
C3_SingularFlowField ==
    ZeroTangentialStage =>
        /\ tm_ret # "Ok"
        /\ tm_pc = "done" => tm_ret = "Err"
        /\ \A i \in 1..Len(results) : FiniteResult(results[i])

\* C3 witness: a call met a zero tangential component at a stage, returned
\* Ok, and the sequence holds a state that is not finite
C3_Witness ==
    /\ tm_ret = "Ok"
    /\ ZeroTangentialStage
    /\ \E i \in 1..Len(results) : ~IsFinite(results[i].radial_distance)


\* h as line 76 computes it
StepSize == FDiv(FSub(tm_args.final_theta, tm_args.initial_theta), F(tm_args.steps))

\* theta after line 149 has added hstep to it k times
RECURSIVE ThetaAfter(_, _, _)
ThetaAfter(theta, hstep, k) == IF k = 0 THEN theta ELSE ThetaAfter(FAdd(theta, hstep), hstep, k - 1)

\* b follows a strictly in the direction of the sign of hstep
StrictlyAlong(hstep, a, b) == (FGt(hstep, 0) /\ FLt(a, b)) \/ (FLt(hstep, 0) /\ FGt(a, b))

\* how far theta lies past final in the direction of hstep, in units of the last place
Overshoot(hstep, theta, final) == IF FGt(hstep, 0) THEN theta - final ELSE IF FLt(hstep, 0) THEN final - theta ELSE 0

C18_ConstantTheta == tm_ret = "Ok" /\ tm_args.steps >= 1 /\ StepSize = 0 /\ Len(results) >= 2

\* the last element of a non-empty sequence
Last(s) == s[Len(s)]

\* the current state of the loop is the state stored in element e
CurrentIs(u, v, r, theta, e) ==
    /\ u = e.velocity_vector.radial_component
    /\ v = e.velocity_vector.tangential_component
    /\ r = e.radial_distance
    /\ theta = e.theta

\* C19: the result sequence is append-only during integration: each loop
\* iteration either appends exactly one element and makes that element's
\* velocity, radius and theta the current state of the next iteration, or
\* appends nothing and ends the loop; no iteration removes, reorders or
\* changes an element appended earlier.
C19_AppendOnly ==
    [][tm_pc = "loop" =>
          \/ results' = results /\ tm_pc' = "done"
          \/ /\ Len(results') = Len(results) + 1
             /\ SubSeq(results', 1, Len(results)) = results
             /\ CurrentIs(current_radial_velocity', current_tangential_velocity', current_radial_distance', current_theta', Last(results'))
             /\ tm_pc' = "loop"
             /\ tm_step' = tm_step + 1]_vars

\* C19 witness: two iterations have appended, and the loop continues from
\* the state stored in the last element, which differs from the one before
C19_Witness ==
    /\ tm_pc = "loop"
    /\ Len(results) = 3
    /\ tm_step = 2
    /\ results[1] = InitialResult
    /\ results[2] # results[1]
    /\ results[3] # results[2]
    /\ CurrentIs(current_radial_velocity, current_tangential_velocity, current_radial_distance, current_theta, results[3])

\* ------------------------------------------------------- bisection, properties

\* the call has run out of iterations without meeting a convergence test
BisectionExhausted == bis_pc = "done" /\ bis_ret # "Ok"

\* C4: bisection performs at most max_iterations iterations, 200 when none is
\* supplied and with tolerance 1e-9 when none is supplied; when no iteration
\* meets a convergence test the call ends with an error result handed to the
\* caller, never with a panic.
C4_ConvergenceFailureIsError ==
    /\ bis_pc \in {"loop", "done"} =>
          /\ bis_args.max_iters = None => bis_max_iters = 200
          /\ bis_args.tolerance = None => bis_tolerance = 1
          /\ bis_i <= bis_max_iters
    /\ BisectionExhausted => bis_ret = "Err"

\* C4: the default budget of 200 iterations has been used up and the call
\* has ended without a value
C4_Witness ==
    /\ BisectionExhausted
    /\ bis_args.max_iters = None
    /\ bis_i = 200
    /\ bis_ret = "Panic"

\* f(x) for the function of the call
BisF(x) == Apply(bis_args.f, x)

\* the two convergence tests at m, both strict
MeetsEitherTest(m) ==
    \/ FLtTol(FAbs(BisF(m)), bis_tolerance)
    \/ FLtTol(FDiv(FSub(upperbound, lowerbound), F(2)), bis_tolerance)

\* what one iteration with midpoint m does
IterationAt(m) ==
    /\ bis_ret' = "Ok" <=> MeetsEitherTest(m)
    /\ MeetsEitherTest(m) =>
          /\ bis_val' = m
          /\ lowerbound' = lowerbound
          /\ upperbound' = upperbound
    /\ ~MeetsEitherTest(m) =>
          IF FGt(FMul(BisF(m), BisF(lowerbound)), 0)
          THEN lowerbound' = m /\ upperbound' = upperbound
          ELSE upperbound' = m /\ lowerbound' = lowerbound

\* C7: every iteration of bisection takes m = (lower + upper)/2 and returns m,
\* with the bounds as they were, if and only if |f(m)| < tolerance or
\* (upper - lower)/2 < tolerance; otherwise it sets lower to m when
\* f(m)*f(lower) > 0 and upper to m in every other case, a product of
\* exactly 0 included.
C7_IterationNarrows ==
    [][bis_pc = "loop" /\ bis_i' = bis_i + 1 =>
          IterationAt(FDiv(FAdd(upperbound, lowerbound), F(2)))]_vars

\* C7: after the first iteration of a call whose lower bound is a root of f
\* (the product is exactly 0) the upper bound is the midpoint and the lower
\* bound has not moved
C7_Witness ==
    /\ bis_pc = "loop"
    /\ bis_i = 1
    /\ BisF(lowerbound) = 0
    /\ lowerbound = LowerOf(bis_args.x1, bis_args.x2)
    /\ FLt(lowerbound, upperbound)
    /\ upperbound = FDiv(FAdd(bis_args.x1, bis_args.x2), F(2))

\* the bounds the call starts from, line 15
InitialLower == LowerOf(bis_args.x1, bis_args.x2)
InitialUpper == UpperOf(bis_args.x1, bis_args.x2)

\* f(min(x1, x2)) * f(max(x1, x2)) < 0
InitialSignChange == FLt(FMul(BisF(InitialLower), BisF(InitialUpper)), 0)

\* C16: when the initial bounds of bisection hold a sign change, the bounds
\* at the start of every iteration satisfy f(lower) * f(upper) <= 0; and
\* bisection does not test the initial bounds: with or without a sign change
\* it goes through its iterations and never returns an error for them.
C16_SignChangeKept ==
    /\ (bis_pc = "loop" /\ InitialSignChange) =>
           FLe(FMul(BisF(lowerbound), BisF(upperbound)), 0)
    /\ bis_pc \in {"loop", "done"} => bis_ret # "Err"
    /\ (bis_pc = "done" /\ bis_max_iters > 0) => bis_i >= 1

\* C16: a call that started from a sign change has moved both of its bounds
\* and is at the start of a further iteration
C16_Witness ==
    /\ bis_pc = "loop"
    /\ InitialSignChange
    /\ bis_i >= 2
    /\ lowerbound # InitialLower
    /\ upperbound # InitialUpper
    /\ FLt(FMul(BisF(lowerbound), BisF(upperbound)), 0)

\* both bounds of the call are finite
FiniteBounds == IsFinite(bis_args.x1) /\ IsFinite(bis_args.x2)

\* min(x1, x2) <= a <= b <= max(x1, x2), as numbers
OrderedWithinBounds(a, b) ==
    /\ FLe(InitialLower, a)
    /\ FLe(a, b)
    /\ FLe(b, InitialUpper)

\* an iteration starts: the loop is entered again with iterations left
IterationStarts == bis_pc = "loop" /\ LoopRuns(bis_i, bis_max_iters)

\* C20: for any f and any finite bounds x1, x2 in either order, at the
\* start of every iteration min(x1,x2) <= lower <= upper <= max(x1,x2),
\* each narrowing step exactly halves upper - lower, and a returned value
\* is the midpoint of the current bracket and lies in
\* [min(x1,x2), max(x1,x2)].
C20_BracketHalvesWithinBounds ==
    [][FiniteBounds =>
          /\ IterationStarts' => OrderedWithinBounds(lowerbound', upperbound')
          /\ (bis_pc = "loop" /\ bis_pc' = "loop" /\ bis_i' = bis_i + 1) =>
                 2 * (upperbound' - lowerbound') = upperbound - lowerbound
          /\ (bis_pc = "loop" /\ bis_ret' = "Ok") =>
                 /\ bis_val' = Midpoint(lowerbound, upperbound)
                 /\ OrderedWithinBounds(bis_val', bis_val')]_vars

\* C20 witness: finite bounds, and an iteration starts with a bound that
\* is infinite, the sum of the bounds having overflowed
C20_Witness ==
    /\ FiniteBounds
    /\ IterationStarts
    /\ bis_i = 1
    /\ IsInf(lowerbound) \/ IsInf(upperbound)

\* the call leaves the tolerance and the iteration budget to their defaults
DefaultsInForce == ~bis_args.tolerance.some /\ ~bis_args.max_iters.some

\* the width of the bracket the call starts from, in thousandths
InitialWidth == InitialUpper - InitialLower

\* NanoPerMilli without its factor 2^6
OddPartOfNano == NanoPerMilli \div 64

\* w * OddPartOfNano < 2^m, computed without leaving 32 bits
ScaledBelowPow2(w, m) ==
    IF m <= 30 THEN w <= (Pow2(m) - 1) \div OddPartOfNano
    ELSE IF w \div Pow2(m - 30) > Pow2(30) \div OddPartOfNano THEN FALSE
    ELSE (w \div Pow2(m - 30)) * OddPartOfNano + ((w % Pow2(m - 30)) * OddPartOfNano) \div Pow2(m - 30) < Pow2(30)

\* W / 2^n < 1e-9 for a width of w thousandths
HalvedBelowDefault(w, n) == w = 0 \/ (n >= 6 /\ ScaledBelowPow2(w, n - 6))

\* the smallest n, from n upwards, with W / 2^n < 1e-9
RECURSIVE SmallestHalvings(_, _)
SmallestHalvings(w, n) == IF HalvedBelowDefault(w, n) THEN n ELSE SmallestHalvings(w, n + 1)

\* the iterations the half-width test allows a bracket of width w: the
\* returning iteration is counted, so a bracket below the tolerance has one
IterationsAllowed(w) == IF SmallestHalvings(w, 0) = 0 THEN 1 ELSE SmallestHalvings(w, 0)

BelowGuard(d) == FLtGuard(FAbs(d), 1)

\* the call ended inside an iteration whose derivative was below the guard
EndedAtSmallDerivative ==
    /\ nr_pc = "done"
    /\ nr_ret # "Ok"
    /\ nr_i < nr_max_iters
    /\ BelowGuard(df_curr)

\* C5: when |df(x_n)| < 1e-12 at an iteration n of newton_raphson, n = 0 at
\* the initial guess included, the call ends with an error result, and no
\* division f(x_n)/df(x_n) is made by such a derivative.
C5_SingularDerivativeIsError ==
    /\ \A k \in 1..Len(nr_divisors) : ~BelowGuard(nr_divisors[k])
    /\ EndedAtSmallDerivative => nr_ret = "Err"

\* C5: the derivative is zero at the initial guess and the call has ended
\* before any update
C5_Witness ==
    /\ EndedAtSmallDerivative
    /\ nr_i = 0
    /\ df_curr = 0
    /\ nr_divisors = <<>>
    /\ nr_ret = "Panic"

\* the budget of updates is used up and none met the convergence test
NewtonExhausted ==
    /\ nr_pc = "done"
    /\ nr_ret # "Ok"
    /\ nr_i = nr_max_iters

\* C6: newton_raphson makes at most max_iterations updates
\* x_{n+1} = x_n - f(x_n)/df(x_n), returns x_{n+1} at the first update with
\* |x_{n+1} - x_n| <= tolerance, and ends with an error result when no update
\* meets the test.
C6_ConvergenceFailureIsError ==
    /\ nr_pc \in {"loop", "done"} =>
          /\ nr_i <= nr_max_iters
          /\ Len(nr_divisors) = nr_i
    /\ nr_ret = "Ok" => nr_val = x_current /\ nr_i >= 1
    /\ NewtonExhausted => nr_ret = "Err"

\* C6: three updates were allowed and made, none met the test, and the call
\* has ended without a value
C6_Witness ==
    /\ NewtonExhausted
    /\ nr_args.max_iters = Some(3)
    /\ Len(nr_divisors) = 3
    /\ nr_ret = "Panic"

\* ------------------------------------------------ the flow relations, properties

\* the call has been made
Called == flow_res # NoResult

\* the specific heat ratio of a call, its last argument
GammaOf(c) == c.args[Len(c.args)]

\* a <= x <= b or b <= x <= a
InClosedInterval(x, a, b) ==
    \/ FLe(a, x) /\ FLe(x, b)
    \/ FLe(b, x) /\ FLe(x, a)

\* the one call of bisection C8 speaks of
ExpectedBisection(upstream_mach, deflection_angle, specific_heat_ratio) ==
    [fn |-> "bisection",
     f |-> [kind |-> "deflection", upstream_mach |-> upstream_mach,
            deflection_angle |-> deflection_angle,
            specific_heat_ratio |-> specific_heat_ratio],
     x1 |-> deflection_angle,
     x2 |-> FDiv(PI, F(2)),
     tolerance |-> None,
     max_iters |-> None]

\* C8: for an upstream Mach number above 1, calc_shock_angle makes exactly
\* one call of bisection, on f(beta) = calc_deflection_angle(M1, beta, gamma)
\* - theta_target, with the lower bound theta_target, the upper bound pi/2 and
\* no tolerance or iteration budget supplied; every Ok result lies in the
\* closed interval between theta_target and pi/2.
C8_OneBisectionFromDeflection ==
    (/\ Called
     /\ flow_call.fn = "calc_shock_angle"
     /\ FGt(flow_call.args[1], F(1))) =>
        /\ flow_res.calls =
              <<ExpectedBisection(flow_call.args[1], flow_call.args[2],
                                  flow_call.args[3])>>
        /\ flow_res.tag = "Ok" =>
              InClosedInterval(flow_res.val, flow_call.args[2], FDiv(PI, F(2)))

\* C8: a shock angle found strictly between a deflection of 0.2 and pi/2
C8_Witness ==
    /\ flow_call.fn = "calc_shock_angle"
    /\ FGt(flow_call.args[1], F(1))
    /\ flow_call.args[2] = 200
    /\ flow_res.tag = "Ok"
    /\ FLt(200, flow_res.val)
    /\ FLt(flow_res.val, FDiv(PI, F(2)))
    /\ Len(flow_res.calls) = 1

\* the deflection behind a shock at the angle beta
DeflectionAt(upstream_mach, beta, specific_heat_ratio) ==
    calc_deflection_angle(upstream_mach, beta, specific_heat_ratio).val

\* beta is on the weak branch: above the Mach angle, and below the angle of
\* maximum deflection, so that some steeper shock deflects the flow more
WeakBranch(upstream_mach, beta, specific_heat_ratio) ==
    /\ FGt(beta, calc_mach_angle_from_mach(upstream_mach).val)
    /\ \E steeper \in (beta + 1)..FDiv(PI, F(2)) :
          FGt(DeflectionAt(upstream_mach, steeper, specific_heat_ratio),
              DeflectionAt(upstream_mach, beta, specific_heat_ratio))

\* 1e-2
RoundTripTolerance == F(1) \div 100

\* C9: for M1 > 1, gamma > 1 and every shock angle beta of the weak branch,
\* calc_shock_angle(M1, calc_deflection_angle(M1, beta, gamma), gamma)
\* returns a value within 1e-2 of beta.
C9_RoundTripOnWeakBranch ==
    (/\ Called
     /\ flow_call.fn = "shock_angle_of_known"
     /\ FGt(flow_call.args[1], F(1))
     /\ FGt(flow_call.args[3], F(1))
     /\ WeakBranch(flow_call.args[1], flow_call.args[2], flow_call.args[3])) =>
        /\ flow_res.tag = "Ok"
        /\ FLe(FAbs(FSub(flow_res.val, flow_call.args[2])), RoundTripTolerance)

\* C9: a weak-branch shock angle for which the value returned is the upper
\* bound pi/2, more than 0.4 away
C9_Witness ==
    /\ Called
    /\ flow_call.fn = "shock_angle_of_known"
    /\ WeakBranch(flow_call.args[1], flow_call.args[2], flow_call.args[3])
    /\ flow_res.tag = "Ok"
    /\ FGt(FSub(flow_res.val, flow_call.args[2]), 400)

\* C10: every flow relation that takes the specific heat ratio returns an
\* error when gamma <= 1, before it computes anything or calls a root finder;
\* valid_specific_heat_ratio(gamma) is true if and only if gamma > 1.
C10_GammaAtMostOneIsError ==
    /\ \A g \in Gammas : valid_specific_heat_ratio(g) <=> FGt(g, F(1))
    /\ (/\ Called
        /\ flow_call.fn \in GammaRelations
        /\ FLe(GammaOf(flow_call), F(1))) =>
           /\ flow_res.tag = "Err"
           /\ flow_res.calls = <<>>

\* C10: calc_deflection_angle has returned a value for gamma = 1
C10_Witness ==
    /\ flow_call.fn = "calc_deflection_angle"
    /\ GammaOf(flow_call) = F(1)
    /\ flow_res.tag = "Ok"

\* the two relations between the Mach number and the Mach angle
MachAngleRelations == {"calc_mach_angle_from_mach", "calc_mach_from_mach_angle"}

\* the argument of a Mach-angle relation is rejected by the test the
\* relation makes: a Mach number below 0, an angle outside [0, pi/2]
OutsideTestedDomain(c) ==
    \/ c.fn = "calc_mach_angle_from_mach" /\ FLt(c.args[1], 0)
    \/ /\ c.fn = "calc_mach_from_mach_angle"
       /\ (FLt(c.args[1], 0) \/ FGt(c.args[1], FDiv(PI, F(2))))

\* C11: neither Mach-angle relation returns an Ok result that carries NaN or
\* an infinity: calc_mach_angle_from_mach returns an error for a Mach number
\* below 0 and for every other Mach number at which asin(1/M) is undefined,
\* calc_mach_from_mach_angle returns an error for an angle outside [0, pi/2],
\* and the Ok value of every accepted argument is a finite number.
C11_MachAngleResultIsFinite ==
    (Called /\ flow_call.fn \in MachAngleRelations) =>
        /\ OutsideTestedDomain(flow_call) => flow_res.tag = "Err"
        /\ flow_res.tag = "Ok" => IsFinite(flow_res.val)

\* C11: calc_mach_angle_from_mach has accepted a Mach number between 0 and 1
\* and returned Ok of NaN
C11_Witness ==
    /\ Called
    /\ flow_call.fn = "calc_mach_angle_from_mach"
    /\ FGt(flow_call.args[1], 0)
    /\ FLt(flow_call.args[1], F(1))
    /\ flow_res.tag = "Ok"
    /\ IsNaN(flow_res.val)

\* C12: calc_mach_from_temperature_ratio, calc_mach_from_pressure_ratio and
\* calc_mach_from_density_ratio return an error if and only if gamma <= 1 or
\* ratio <= 0 or ratio > 1; the error for gamma <= 1 is the one returned
\* whatever the ratio, a ratio of exactly 1 is accepted and a ratio of
\* exactly 0 is rejected.
C12_InverseRatioDomain ==
    (Called /\ flow_call.fn \in RatioGammaRelations) =>
        /\ flow_res.tag \in {"Ok", "Err"}
        /\ flow_res.tag = "Err" <=>
              \/ FLe(GammaOf(flow_call), F(1))
              \/ FLe(flow_call.args[1], 0)
              \/ FGt(flow_call.args[1], F(1))
        /\ FLe(GammaOf(flow_call), F(1)) =>
              flow_res.msg = "invalid specific heat ratio"
        /\ (FGt(GammaOf(flow_call), F(1)) /\ flow_call.args[1] = F(1)) =>
              flow_res.tag = "Ok"
        /\ (FGt(GammaOf(flow_call), F(1)) /\ flow_call.args[1] = 0) =>
              flow_res.tag = "Err" /\ flow_res.msg # "invalid specific heat ratio"

\* C12: a ratio of exactly 1 has been accepted with gamma = 1.4, and the Mach
\* number returned is 0
C12_Witness ==
    /\ Called
    /\ flow_call.fn \in RatioGammaRelations
    /\ flow_call.args[1] = F(1)
    /\ FGt(GammaOf(flow_call), F(1))
    /\ flow_res.tag = "Ok"
    /\ flow_res.val = 0

\* x lies in [0, 1]
InUnitInterval(x) == FLe(0, x) /\ FLe(x, F(1))

\* what calc_max_shock_angle is to return for the sine s it has computed
ValidatedInversion(s) ==
    IF InUnitInterval(s)
    THEN flow_res.tag = "Ok" /\ flow_res.val = Asin(s)
    ELSE flow_res.tag = "Err" /\ flow_res.msg = "math error"

\* C13: calc_max_shock_angle returns an error when gamma <= 1 or the upstream
\* Mach number is <= 1; otherwise it applies asin only to a computed sine
\* that lies in [0, 1], and returns a math error instead of a result for
\* every computed sine outside [0, 1].
C13_SineValidatedBeforeInversion ==
    (Called /\ flow_call.fn = "calc_max_shock_angle") =>
        IF FLe(flow_call.args[2], F(1)) \/ FLe(flow_call.args[1], F(1))
        THEN flow_res.tag = "Err"
        ELSE ValidatedInversion(sin_max_shock_angle(flow_call.args[1],
                                                    flow_call.args[2]))

\* C13: for an upstream Mach number so large that its square overflows, the
\* computed sine is NaN and calc_max_shock_angle has returned Ok of NaN
C13_Witness ==
    /\ Called
    /\ flow_call.fn = "calc_max_shock_angle"
    /\ FGt(flow_call.args[1], F(1))
    /\ FGt(flow_call.args[2], F(1))
    /\ IsNaN(sin_max_shock_angle(flow_call.args[1], flow_call.args[2]))
    /\ flow_res.tag = "Ok"
    /\ IsNaN(flow_res.val)

\* the relations that hand their work to a root finder
RootFinderCallers ==
    {"calc_shock_angle", "calc_downstream_mach_from_deflection_angle",
     "calc_mach_from_prandtl_meyer_angle"}

\* what the root finder does when called as the logged call says
OutcomeOf(call) ==
    IF call.fn = "bisection"
    THEN bisection(call.f, call.x1, call.x2, call.tolerance, call.max_iters)
    ELSE newton_raphson(call.f, call.df, call.x_init, call.tolerance,
                        call.max_iters)

\* a root finder called on the way to the result has failed
RootFinderFailed ==
    \E k \in 1..Len(flow_res.calls) : OutcomeOf(flow_res.calls[k]).tag = "Panic"

\* C14: when the nested root finder fails (bisection out of iterations,
\* newton_raphson at a derivative below 1e-12 or out of iterations),
\* calc_shock_angle, calc_downstream_mach_from_deflection_angle and
\* calc_mach_from_prandtl_meyer_angle return an error result; no input makes
\* any of them end in a panic.
C14_RootFinderFailureIsError ==
    (Called /\ flow_call.fn \in RootFinderCallers) =>
        /\ flow_res.tag \in {"Ok", "Err"}
        /\ RootFinderFailed => flow_res.tag = "Err"

\* C14: the bisection inside calc_shock_angle has used up its 200 iterations
\* and the call has ended in its panic
C14_Witness ==
    /\ Called
    /\ flow_call.fn = "calc_shock_angle"
    /\ RootFinderFailed
    /\ OutcomeOf(flow_res.calls[1]).iters = 200
    /\ flow_res.tag = "Panic"
    /\ flow_res.msg = "solution not converged"

\* the Mach number a round trip starts from
MachOf(c) == c.args[3][1]

\* the forward relation of the round trip c returns a value for its
\* arguments, which are a Mach number that is a number >= 0 and, where the
\* relation takes one, a specific heat ratio above 1
InForwardDomain(c) ==
    /\ FGe(MachOf(c), 0)
    /\ IsFinite(MachOf(c))
    /\ \A k \in 2..Len(c.args[3]) : FGt(c.args[3][k], F(1))
    /\ Invoke([fn |-> c.args[1], args |-> c.args[3]]).tag = "Ok"

\* 0.005, the least difference these numbers tell apart with certainty after
\* a forward and an inverse relation; a value within 1e-5 is within it
Resolvable == F(5) \div 1000

\* C15: for gamma > 1 and every Mach number M in the domain of a forward
\* isentropic relation (pressure, temperature and density ratio, Mach angle,
\* Prandtl-Meyer angle), the matching inverse accepts the forward result and
\* returns M within 1e-5.  Stated with the wider margin Resolvable: a round
\* trip that misses it misses 1e-5 too.
C15_IsentropicRoundTrip ==
    (Called /\ flow_call.fn = "round_trip" /\ InForwardDomain(flow_call)) =>
        /\ flow_res.tag = "Ok"
        /\ FLe(FAbs(FSub(flow_res.val, MachOf(flow_call))), Resolvable)

\* C15: the Mach angle returned for the Mach number 0.5 is NaN, the inverse
\* has accepted it, and the Mach number returned is NaN
C15_Witness ==
    /\ Called
    /\ flow_call.fn = "round_trip"
    /\ flow_call.args[1] = "calc_mach_angle_from_mach"
    /\ MachOf(flow_call) = 500
    /\ InForwardDomain(flow_call)
    /\ IsNaN(Invoke([fn |-> flow_call.args[1], args |-> flow_call.args[3]]).val)
    /\ flow_res.tag = "Ok"
    /\ IsNaN(flow_res.val)

\* the call is one that the relation is to reject before its root finder:
\* calc_shock_angle with an upstream Mach number <= 1,
\* calc_mach_from_prandtl_meyer_angle with gamma <= 1
RejectedBeforeRootFinder(c) ==
    \/ c.fn = "calc_shock_angle" /\ FLe(c.args[1], F(1))
    \/ c.fn = "calc_mach_from_prandtl_meyer_angle" /\ FLe(GammaOf(c), F(1))

\* C17: calc_shock_angle with an upstream Mach number <= 1 returns its error
\* without a call of bisection, and so without an evaluation of the
\* deflection-angle function; calc_mach_from_prandtl_meyer_angle with
\* gamma <= 1 returns its error without a call of newton_raphson.
C17_RejectedBeforeRootFinder ==
    (Called /\ RejectedBeforeRootFinder(flow_call)) =>
        /\ flow_res.tag = "Err"
        /\ flow_res.calls = <<>>
        /\ flow_res.msg =
              IF flow_call.fn = "calc_shock_angle" THEN "invalid mach number"
              ELSE "invalid specific heat ratio"

\* C17: calc_shock_angle has rejected an upstream Mach number of 1 for a
\* deflection angle, NaN, on which its bisection would have run out of
\* iterations
C17_Witness ==
    /\ Called
    /\ flow_call.fn = "calc_shock_angle"
    /\ flow_call.args[1] = F(1)
    /\ IsNaN(flow_call.args[2])
    /\ flow_res.tag = "Err"
    /\ flow_res.calls = <<>>
====
